---- MODULE Spec2Model ----
(***************************************************************************)
(* Model of the two MiniVSFS tools: mkfs_builder (creates an empty image)  *)
(* and mkfs_adder (inserts one regular file into the root directory of an  *)
(* image and writes the result to a separate output file).                 *)
(*                                                                         *)
(* Records are kept byte-exact where a checksum reads them: inodes and     *)
(* directory entries are serialised little-endian and the CRC32 and XOR    *)
(* checksums are computed over those bytes as the C code does.             *)
(***************************************************************************)
EXTENDS Integers, Sequences, FiniteSets, TLC

(***************************************************************************)
(* Program constants                                                       *)
(***************************************************************************)
BS == 4096
INODE_SIZE == 128
DIRENT_SIZE == 64
SB_SIZE == 116
MAGIC == 1297503046
MODE_DIR == 16384
MODE_FILE == 32768
PROJ_ID == 1234
NAME_FIELD == 58
NAME_MAX == 57
DIRECT_MAX == 12
TYPE_FILE == 1
TYPE_DIR == 2

(***************************************************************************)
(* Bytes and little-endian serialisation                                   *)
(***************************************************************************)
Byte == 0..255

Min(a, b) == IF a < b THEN a ELSE b
Max(a, b) == IF a > b THEN a ELSE b

RECURSIVE LE(_, _)
\* the n little-endian bytes of the unsigned value v
LE(v, n) == IF n = 0 THEN <<>> ELSE <<v % 256>> \o LE(v \div 256, n - 1)

Zeros(n) == [i \in 1..n |-> 0]

RECURSIVE XorBits(_, _, _)
\* bitwise exclusive or of two values below 2^n
XorBits(a, b, n) ==
    IF n = 0 THEN 0
    ELSE ((a + b) % 2) + 2 * XorBits(a \div 2, b \div 2, n - 1)

\* XorTab[a][b] = a ^ b for bytes a, b
XorTab == [a \in Byte |-> [b \in Byte |-> XorBits(a, b, 8)]]

Xor8(a, b) == XorTab[a][b]

\* 32-bit words are held as four bytes, least significant first
Xor32(u, w) == <<Xor8(u[1], w[1]), Xor8(u[2], w[2]), Xor8(u[3], w[3]), Xor8(u[4], w[4])>>

\* u >> 1
Shr1(u) == << (u[1] \div 2) + 128 * (u[2] % 2),
              (u[2] \div 2) + 128 * (u[3] % 2),
              (u[3] \div 2) + 128 * (u[4] % 2),
              (u[4] \div 2) >>

\* u >> 8
Shr8(u) == <<u[2], u[3], u[4], 0>>

\* 0xEDB88320
CRC_POLY == <<32, 131, 184, 237>>

RECURSIVE CrcTabStep(_, _)
CrcTabStep(c, j) ==
    IF j = 0 THEN c
    ELSE CrcTabStep(IF c[1] % 2 = 1 THEN Xor32(CRC_POLY, Shr1(c)) ELSE Shr1(c), j - 1)

\* the table crc32_init fills: CRC32_TAB[i] for i in 0..255
CRC32_TAB == [i \in Byte |-> CrcTabStep(<<i, 0, 0, 0>>, 8)]

\* one iteration of the loop of crc32: c = CRC32_TAB[(c ^ b) & 0xFF] ^ (c >> 8)
CrcStep(c, b) ==
    LET t == CRC32_TAB[Xor8(c[1], b)]
    IN  <<Xor8(t[1], c[2]), Xor8(t[2], c[3]), Xor8(t[3], c[4]), t[4]>>

RECURSIVE CrcLoop(_, _, _, _)
\* the loop of crc32 over p[lo..hi], split in halves to keep the evaluation shallow
CrcLoop(c, p, lo, hi) ==
    IF lo > hi THEN c
    ELSE IF hi - lo < 4
    THEN IF lo = hi THEN CrcStep(c, p[lo])
         ELSE IF lo + 1 = hi THEN CrcStep(CrcStep(c, p[lo]), p[hi])
         ELSE IF lo + 2 = hi THEN CrcStep(CrcStep(CrcStep(c, p[lo]), p[lo + 1]), p[hi])
         ELSE CrcStep(CrcStep(CrcStep(CrcStep(c, p[lo]), p[lo + 1]), p[lo + 2]), p[hi])
    ELSE LET mid == (lo + hi) \div 2
             left == CrcLoop(c, p, lo, mid)
         IN  \* the test makes TLC compute the left half before the right one
             IF left[1] \in Byte THEN CrcLoop(left, p, mid + 1, hi) ELSE left

\* crc32 of the byte sequence p, as four bytes least significant first
crc32(p) == Xor32(CrcLoop(<<255, 255, 255, 255>>, p, 1, Len(p)), <<255, 255, 255, 255>>)

(***************************************************************************)
(* Records.  Arrays that the tools keep mostly zero (bitmaps, the inode    *)
(* table, the data region, the directory block) are held as maps from the  *)
(* indices of their non-zero elements; every other element is zero.        *)
(***************************************************************************)
EmptyMap == [i \in {} |-> 0]

Put(m, i, v) == [j \in (DOMAIN m) \cup {i} |-> IF j = i THEN v ELSE m[j]]

ZeroInode ==
    [mode |-> 0, links |-> 0, uid |-> 0, gid |-> 0, size_bytes |-> 0,
     atime |-> 0, mtime |-> 0, ctime |-> 0, direct |-> Zeros(DIRECT_MAX),
     reserved_0 |-> 0, reserved_1 |-> 0, reserved_2 |-> 0, proj_id |-> 0,
     uid16_gid16 |-> 0, xattr_ptr |-> 0, inode_crc |-> Zeros(8)]

ZeroDirent == [inode_no |-> 0, type |-> 0, name |-> Zeros(NAME_FIELD), checksum |-> 0]

ZeroBlock == [kind |-> "zero"]

\* inode_t at slot i of an inode table
InodeAt(tab, i) == IF i \in DOMAIN tab THEN tab[i] ELSE ZeroInode

\* byte i of a bitmap block
BitmapByte(bm, i) == IF i \in DOMAIN bm THEN bm[i] ELSE 0

\* block b of a data region
BlockAt(dr, b) == IF b \in DOMAIN dr THEN dr[b] ELSE ZeroBlock

\* the dirent64_t array a data block holds when it is read as a directory
DirOf(blk) == IF blk.kind = "dir" THEN blk.ent ELSE EmptyMap

DirentAt(blk, i) == IF i \in DOMAIN DirOf(blk) THEN DirOf(blk)[i] ELSE ZeroDirent

\* bitmap[i / 8] & (1 << (i % 8))
TestBit(bm, i) == (BitmapByte(bm, i \div 8) \div (2 ^ (i % 8))) % 2 = 1

\* a bug: bitmap[i / 8] = (1 << (i % 8)), which clears the other bits of the byte
SetBit_Assign(bm, i) == Put(bm, i \div 8, 2 ^ (i % 8))

\* bitmap[i / 8] |= (1 << (i % 8))
SetBit(bm, i) ==
    IF TestBit(bm, i) THEN bm
    ELSE Put(bm, i \div 8, BitmapByte(bm, i \div 8) + 2 ^ (i % 8))


(***************************************************************************)
(* Checksums                                                               *)
(***************************************************************************)
RECURSIVE DirectBytes(_, _)
DirectBytes(d, k) == IF k > Len(d) THEN <<>> ELSE LE(d[k], 4) \o DirectBytes(d, k + 1)

\* the first 120 bytes of the packed inode_t
InodeBytes(ino) ==
    LE(ino.mode, 2) \o LE(ino.links, 2) \o LE(ino.uid, 4) \o LE(ino.gid, 4)
    \o LE(ino.size_bytes, 8) \o LE(ino.atime, 8) \o LE(ino.mtime, 8) \o LE(ino.ctime, 8)
    \o DirectBytes(ino.direct, 1)
    \o LE(ino.reserved_0, 4) \o LE(ino.reserved_1, 4) \o LE(ino.reserved_2, 4)
    \o LE(ino.proj_id, 4) \o LE(ino.uid16_gid16, 4) \o LE(ino.xattr_ptr, 8)

\* the value ino->inode_crc receives: (uint64_t) crc32(tmp, 120)
InodeCrc(ino) == crc32(InodeBytes(ino)) \o Zeros(4)

inode_crc_finalize(ino) == [ino EXCEPT !.inode_crc = InodeCrc(ino)]

\* the first 63 bytes of the packed dirent64_t
DirentBytes(de) == LE(de.inode_no, 4) \o <<de.type>> \o de.name

RECURSIVE XorLoop(_, _, _)
XorLoop(p, lo, hi) ==
    IF lo > hi THEN 0
    ELSE IF lo = hi THEN p[lo]
    ELSE LET mid == (lo + hi) \div 2
         IN  Xor8(XorLoop(p, lo, mid), XorLoop(p, mid + 1, hi))

DirentXor(de) == XorLoop(DirentBytes(de), 1, DIRENT_SIZE - 1)

dirent_checksum_finalize(de) == [de EXCEPT !.checksum = DirentXor(de)]

\* superblock_crc_finalize runs crc32 over BS - 4 bytes starting at a 116-byte
\* object: it reads 3976 bytes past the record.  The value stored is whatever
\* the bytes that follow it on the stack give; stack is that outcome.
superblock_crc_finalize(sb, stack) == [sb EXCEPT !.checksum = stack]

\* strncpy(dst, src, n): src is a string without its terminator
strncpy(dst, src, n) ==
    [i \in 1..Len(dst) |->
        IF i > n THEN dst[i] ELSE IF i <= Len(src) THEN src[i] ELSE 0]

(***************************************************************************)
(* Files.  A file is the sequence of extents written to it, in the order   *)
(* of the writes; bytes no extent covers (a hole left by fseek) read as    *)
(* zero.  NoFile is a path at which no file exists.                        *)
(***************************************************************************)
NoFile == [ext |-> <<>>, size |-> -1]

\* fopen(name, "wb"): the file exists and is empty
fopen_wb == [ext |-> <<>>, pos |-> 0]

fwrite(fp, data, len) ==
    [ext |-> Append(fp.ext, [off |-> fp.pos, len |-> len, data |-> data]),
     pos |-> fp.pos + len]

fseek(fp, off) == [fp EXCEPT !.pos = off]

RECURSIVE EndOf(_, _)
EndOf(ext, k) == IF k = 0 THEN 0 ELSE Max(ext[k].off + ext[k].len, EndOf(ext, k - 1))

fclose(fp) == [ext |-> fp.ext, size |-> EndOf(fp.ext, Len(fp.ext))]

Exists(f) == f.size >= 0

\* fseek(off) and fread(len, 1): the extent written at off, when it holds len bytes
HasExtent(f, off, len) == \E k \in 1..Len(f.ext) : f.ext[k].off = off /\ f.ext[k].len >= len

ExtentAt(f, off) == f.ext[CHOOSE k \in 1..Len(f.ext) : f.ext[k].off = off]

(***************************************************************************)
(* mkfs_builder                                                            *)
(***************************************************************************)
\* 2^64 as the model holds it: TLC's integers are 32 bits wide, and every
\* quantity the tools compute from accepted arguments is below 2^23
TWO_64 == 2 ^ 30

\* a - b in uint64_t
SubU64(a, b) == IF a >= b THEN a - b ELSE TWO_64 - (b - a)

\* calloc(n, BS) returns NULL when n * BS does not fit the address space
CallocFails(n) == n >= TWO_64 \div BS

\* a bug: the check size_kib < 180 is missing
BuilderArgsOk_NoLowerBound(size_kib, inodes) ==
    ~(size_kib > 4096 \/ inodes < 128 \/ inodes > 512 \/ size_kib % 4 # 0)

\* the argument check of main (imageName is given)
BuilderArgsOk(size_kib, inodes) ==
    ~(size_kib < 180 \/ size_kib > 4096 \/ inodes < 128 \/ inodes > 512
      \/ size_kib % 4 # 0)

compute_geometry(size_kib, inodes) ==
    LET total_blocks == (size_kib * 1024) \div BS
        inode_table_blocks == (inodes * INODE_SIZE + BS - 1) \div BS
        data_region_start == 3 + inode_table_blocks
    IN  [total_blocks |-> total_blocks,
         inode_table_blocks |-> inode_table_blocks,
         data_region_start |-> data_region_start,
         data_region_blocks |-> SubU64(total_blocks, data_region_start)]

MakeSuperblock(g, inodes, now) ==
    [magic |-> MAGIC, version |-> 1, block_size |-> BS,
     total_blocks |-> g.total_blocks, inode_count |-> inodes,
     inode_bitmap_start |-> 1, inode_bitmap_blocks |-> 1,
     data_bitmap_start |-> 2, data_bitmap_blocks |-> 1,
     inode_table_start |-> 3, inode_table_blocks |-> g.inode_table_blocks,
     data_region_start |-> g.data_region_start,
     data_region_blocks |-> g.data_region_blocks,
     root_inode |-> 1, mtime_epoch |-> now, flags |-> 0, checksum |-> Zeros(4)]

\* a bug: size_bytes counts one directory entry
BuilderRootInode_OneEntry(g, now) ==
    inode_crc_finalize(
        [ZeroInode EXCEPT !.mode = MODE_DIR, !.links = 2, !.uid = 0, !.gid = 0,
                          !.size_bytes = DIRENT_SIZE,
                          !.atime = now, !.mtime = now, !.ctime = now,
                          !.direct = [i \in 1..DIRECT_MAX |->
                                         IF i = 1 THEN g.data_region_start ELSE 0],
                          !.proj_id = PROJ_ID])

BuilderRootInode(g, now) ==
    inode_crc_finalize(
        [ZeroInode EXCEPT !.mode = MODE_DIR, !.links = 2, !.uid = 0, !.gid = 0,
                          !.size_bytes = 2 * DIRENT_SIZE,
                          !.atime = now, !.mtime = now, !.ctime = now,
                          !.direct = [i \in 1..DIRECT_MAX |->
                                         IF i = 1 THEN g.data_region_start ELSE 0],
                          !.proj_id = PROJ_ID])

BuilderDirent(name) ==
    dirent_checksum_finalize(
        [ZeroDirent EXCEPT !.inode_no = 1, !.type = TYPE_DIR,
                           !.name = strncpy(ZeroDirent.name, name, NAME_FIELD)])

DOT == <<46>>
DOTDOT == <<46, 46>>

BuilderRootBlock ==
    [kind |-> "dir", ent |-> Put(Put(EmptyMap, 0, BuilderDirent(DOT)), 1, BuilderDirent(DOTDOT))]

\* the writes of main, from fopen to ftell
BuilderWrite(g, sb, now) ==
    LET f1 == fwrite(fopen_wb, [rec |-> sb, pad |-> "zero"], BS)
        f2 == fwrite(f1, Put(EmptyMap, 0, 1), BS)
        f3 == fwrite(f2, Put(EmptyMap, 0, 1), BS)
        f4 == fwrite(f3, Put(EmptyMap, 0, BuilderRootInode(g, now)), BS * g.inode_table_blocks)
    IN  fwrite(f4, Put(EmptyMap, 0, BuilderRootBlock), BS * g.data_region_blocks)

\* main of mkfs_builder: the exit and the image file it leaves (old is what
\* was at the image path before)
BuilderMain(old, size_kib, inodes, now, stack) ==
    IF ~BuilderArgsOk(size_kib, inodes) THEN [exit |-> "usage", file |-> old]
    ELSE LET g == compute_geometry(size_kib, inodes)
         IN  IF g.data_region_blocks < 1 THEN [exit |-> "too_small", file |-> old]
             ELSE IF CallocFails(g.data_region_blocks)
             THEN [exit |-> "alloc_fail", file |-> [ext |-> <<>>, size |-> 0]]
             ELSE LET sb == superblock_crc_finalize(MakeSuperblock(g, inodes, now), stack)
                      fp == BuilderWrite(g, sb, now)
                  IN  IF fp.pos # g.total_blocks * BS
                      THEN [exit |-> "size_mismatch", file |-> fclose(fp)]
                      ELSE [exit |-> "ok", file |-> fclose(fp)]

(***************************************************************************)
(* mkfs_adder                                                              *)
(***************************************************************************)
\* a bug: the scan runs from the top and returns the last clear bit
FirstClear_Highest(bm, cap) ==
    IF \A i \in 0..(cap - 1) : TestBit(bm, i) THEN -1
    ELSE CHOOSE i \in 0..(cap - 1) :
            ~TestBit(bm, i) /\ \A j \in (i + 1)..(cap - 1) : TestBit(bm, j)

\* the first index in 0..cap-1 whose bit is clear, or -1 (the scan of the
\* two find_free functions)
FirstClear(bm, cap) ==
    IF \A i \in 0..(cap - 1) : TestBit(bm, i) THEN -1
    ELSE CHOOSE i \in 0..(cap - 1) :
            ~TestBit(bm, i) /\ \A j \in 0..(i - 1) : TestBit(bm, j)

find_free_inode(bitmap, inode_count) ==
    LET i == FirstClear(bitmap, inode_count) IN IF i = -1 THEN -1 ELSE i + 1

find_free_data_block(bitmap, data_blocks) == FirstClear(bitmap, data_blocks)

\* needed_blocks = (file_size + BS - 1) / BS
NeededBlocks(file_size) == (file_size + BS - 1) \div BS

\* a bug: a file of exactly 12 blocks is refused
TooLarge_Inclusive(needed_blocks) == needed_blocks >= DIRECT_MAX

TooLarge(needed_blocks) == needed_blocks > DIRECT_MAX

RECURSIVE AllocLoop_NoMark(_, _, _, _)
\* a bug: the loop does not set the bit of the block it found
AllocLoop_NoMark(sb, bitmap, blocks, needed_blocks) ==
    IF Len(blocks) >= needed_blocks
    THEN [ok |-> TRUE, data_bitmap |-> bitmap, data_blocks |-> blocks]
    ELSE LET free_block == find_free_data_block(bitmap, sb.data_region_blocks)
         IN  IF free_block = -1
             THEN [ok |-> FALSE, data_bitmap |-> bitmap, data_blocks |-> blocks]
             ELSE AllocLoop_NoMark(sb, bitmap,
                                   Append(blocks, sb.data_region_start + free_block),
                                   needed_blocks)

RECURSIVE AllocLoop(_, _, _, _)
\* the allocation loop of main from iteration k on; blocks are the absolute
\* block numbers found so far.  It stops at the first failed search.
AllocLoop(sb, bitmap, blocks, needed_blocks) ==
    IF Len(blocks) >= needed_blocks
    THEN [ok |-> TRUE, data_bitmap |-> bitmap, data_blocks |-> blocks]
    ELSE LET free_block == find_free_data_block(bitmap, sb.data_region_blocks)
         IN  IF free_block = -1
             THEN [ok |-> FALSE, data_bitmap |-> bitmap, data_blocks |-> blocks]
             ELSE AllocLoop(sb, SetBit(bitmap, free_block),
                            Append(blocks, sb.data_region_start + free_block),
                            needed_blocks)

\* fread(file_content, file_size, 1, file_fp) == 1: fread returns 0 when the
\* item size is 0
FreadOne(file_size) == file_size > 0

\* a bug: the last block takes file_size % BS bytes, none for a full last block
CopySize_Remainder(k, needed_blocks, file_size) ==
    IF k = needed_blocks - 1 THEN file_size % BS ELSE BS

\* copy_size of iteration k (from 0) of the copy loop
CopySize(k, needed_blocks, file_size) ==
    IF k = needed_blocks - 1 THEN file_size - k * BS ELSE BS

\* memcpy of len bytes of a source file, from its offset from, to the start of blk
Memcpy(blk, content, from, len) ==
    IF len = 0 THEN blk
    ELSE [kind |-> "file", content |-> content, from |-> from, len |-> len,
          rest |-> IF len >= BS THEN ZeroBlock ELSE blk]

RECURSIVE CopyLoop_OffByOne(_, _, _, _, _)
\* a bug: offset is taken one block too low
CopyLoop_OffByOne(sb, region, src, data_blocks, k) ==
    IF k >= Len(data_blocks) THEN region
    ELSE LET b == data_blocks[k + 1] - sb.data_region_start - 1
         IN  CopyLoop_OffByOne(sb,
                      Put(region, b, Memcpy(BlockAt(region, b), src.content, k * BS,
                                            CopySize(k, Len(data_blocks), src.size))),
                      src, data_blocks, k + 1)

RECURSIVE CopyLoop(_, _, _, _, _)
CopyLoop(sb, region, src, data_blocks, k) ==
    IF k >= Len(data_blocks) THEN region
    ELSE LET b == data_blocks[k + 1] - sb.data_region_start
         IN  CopyLoop(sb,
                      Put(region, b, Memcpy(BlockAt(region, b), src.content, k * BS,
                                            CopySize(k, Len(data_blocks), src.size))),
                      src, data_blocks, k + 1)

\* a bug: the loop over direct stops one short of needed_blocks
NewInode_ShortDirect(slot, file_size, data_blocks, now) ==
    inode_crc_finalize(
        [slot EXCEPT !.mode = MODE_FILE, !.links = 1, !.uid = 0, !.gid = 0,
                     !.size_bytes = file_size,
                     !.atime = now, !.mtime = now, !.ctime = now,
                     !.direct = [i \in 1..DIRECT_MAX |->
                                    IF i < Len(data_blocks) THEN data_blocks[i] ELSE 0],
                     !.proj_id = PROJ_ID])

NewInode(slot, file_size, data_blocks, now) ==
    inode_crc_finalize(
        [slot EXCEPT !.mode = MODE_FILE, !.links = 1, !.uid = 0, !.gid = 0,
                     !.size_bytes = file_size,
                     !.atime = now, !.mtime = now, !.ctime = now,
                     !.direct = [i \in 1..DIRECT_MAX |->
                                    IF i <= Len(data_blocks) THEN data_blocks[i] ELSE 0],
                     !.proj_id = PROJ_ID])

\* a bug: the scan is skipped and the entry is always appended
FirstFreeEntry_NoReuse(blk, entry_count) == -1

\* the scan of the root directory for an entry with inode_no 0: its index, or -1
FirstFreeEntry(blk, entry_count) ==
    IF \A i \in 0..(entry_count - 1) : DirentAt(blk, i).inode_no # 0 THEN -1
    ELSE CHOOSE i \in 0..(entry_count - 1) :
            /\ DirentAt(blk, i).inode_no = 0
            /\ \A j \in 0..(i - 1) : DirentAt(blk, j).inode_no # 0

\* a bug: the check of entry_count is missing
RootDirFull_Never(entry_count) == FALSE

\* a bug: the directory is taken as full only above 64 entries
RootDirFull_OffByOne(entry_count) == entry_count > BS \div DIRENT_SIZE

RootDirFull(entry_count) == entry_count >= BS \div DIRENT_SIZE

\* the root inode after a slot was appended
GrowRoot(root_inode) ==
    inode_crc_finalize([root_inode EXCEPT !.size_bytes = @ + DIRENT_SIZE])

\* the name field as main fills it
EntryName(file_name) ==
    LET name_len == Min(Len(file_name), NAME_MAX)
        copied == strncpy(Zeros(NAME_FIELD), file_name, name_len)
    IN  [copied EXCEPT ![name_len + 1] = 0]

NewDirent(old, free_inode, file_name) ==
    dirent_checksum_finalize(
        [old EXCEPT !.inode_no = free_inode, !.type = TYPE_FILE,
                    !.name = EntryName(file_name)])

\* a bug: links is not incremented
LinkRoot_NoIncrement(root_inode) == inode_crc_finalize(root_inode)

\* a bug: the checksum is not computed again after links changed
LinkRoot_Stale(root_inode) == [root_inode EXCEPT !.links = (@ + 1) % 65536]

\* root_inode->links++; inode_crc_finalize(root_inode)
LinkRoot(root_inode) ==
    inode_crc_finalize([root_inode EXCEPT !.links = (@ + 1) % 65536])

\* a bug: the regions are written one after the other without fseek
AdderWrite_NoSeek(sb, inode_bitmap, data_bitmap, inode_table, data_region) ==
    LET f1 == fwrite(fopen_wb, [rec |-> sb, pad |-> "none"], SB_SIZE)
        f2 == fwrite(f1, inode_bitmap, BS)
        f3 == fwrite(f2, data_bitmap, BS)
        f4 == fwrite(f3, inode_table, sb.inode_table_blocks * BS)
        f5 == fwrite(f4, data_region, sb.data_region_blocks * BS)
    IN  fclose(f5)

\* a bug: the superblock is written with its checksum field cleared
AdderWrite_ClearedChecksum(sb, inode_bitmap, data_bitmap, inode_table, data_region) ==
    LET f1 == fwrite(fopen_wb, [rec |-> [sb EXCEPT !.checksum = Zeros(4)], pad |-> "none"],
                     SB_SIZE)
        f2 == fwrite(fseek(f1, sb.inode_bitmap_start * BS), inode_bitmap, BS)
        f3 == fwrite(fseek(f2, sb.data_bitmap_start * BS), data_bitmap, BS)
        f4 == fwrite(fseek(f3, sb.inode_table_start * BS), inode_table,
                     sb.inode_table_blocks * BS)
        f5 == fwrite(fseek(f4, sb.data_region_start * BS), data_region,
                     sb.data_region_blocks * BS)
    IN  fclose(f5)

\* the writes of main to the output file, from fopen to fclose
AdderWrite(sb, inode_bitmap, data_bitmap, inode_table, data_region) ==
    LET f1 == fwrite(fopen_wb, [rec |-> sb, pad |-> "none"], SB_SIZE)
        f2 == fwrite(fseek(f1, sb.inode_bitmap_start * BS), inode_bitmap, BS)
        f3 == fwrite(fseek(f2, sb.data_bitmap_start * BS), data_bitmap, BS)
        f4 == fwrite(fseek(f3, sb.inode_table_start * BS), inode_table,
                     sb.inode_table_blocks * BS)
        f5 == fwrite(fseek(f4, sb.data_region_start * BS), data_region,
                     sb.data_region_blocks * BS)
    IN  fclose(f5)

\* what main holds in memory when it exits
Mem(inode_bitmap, data_bitmap, inode_table, data_region) ==
    [inode_bitmap |-> inode_bitmap, data_bitmap |-> data_bitmap,
     inode_table |-> inode_table, data_region |-> data_region]

NoMem == Mem(EmptyMap, EmptyMap, EmptyMap, EmptyMap)

\* a bug: the output file is opened before the checks
Fail_AfterOpen(code, m) ==
    [exit |-> code, opened |-> TRUE, out |-> fclose(fopen_wb), mem |-> m]

\* an exit before the output file is opened
Fail(code, m) == [exit |-> code, opened |-> FALSE, out |-> NoFile, mem |-> m]

\* a bug that is not in the code: the name is looked up in the root directory
\* and the run gives up when an entry in use has it
AdderLink_LookUp(sb, m, free_inode, file_name) ==
    LET root_inode == InodeAt(m.inode_table, 0)
        root_data_block == root_inode.direct[1] - sb.data_region_start
        root_entries == BlockAt(m.data_region, root_data_block)
        entry_count == root_inode.size_bytes \div DIRENT_SIZE
        found == FirstFreeEntry(root_entries, entry_count)
    IN  IF \E i \in 0..(entry_count - 1) :
              /\ DirentAt(root_entries, i).inode_no # 0
              /\ DirentAt(root_entries, i).name = EntryName(file_name)
        THEN Fail("exists", m)
        ELSE IF found = -1 /\ RootDirFull(entry_count) THEN Fail("dir_full", m)
        ELSE LET free_entry == IF found = -1 THEN entry_count ELSE found
                 root1 == IF found = -1 THEN GrowRoot(root_inode) ELSE root_inode
                 entry == NewDirent(DirentAt(root_entries, free_entry), free_inode, file_name)
                 region == Put(m.data_region, root_data_block,
                               [kind |-> "dir", ent |-> Put(DirOf(root_entries), free_entry, entry)])
                 tab == Put(m.inode_table, 0, LinkRoot(root1))
             IN  [exit |-> "ok", opened |-> TRUE,
                  out |-> AdderWrite(sb, m.inode_bitmap, m.data_bitmap, tab, region),
                  mem |-> Mem(m.inode_bitmap, m.data_bitmap, tab, region)]

\* main from the directory update on: the new inode is in the table
AdderLink(sb, m, free_inode, file_name) ==
    LET root_inode == InodeAt(m.inode_table, 0)
        root_data_block == root_inode.direct[1] - sb.data_region_start
        root_entries == BlockAt(m.data_region, root_data_block)
        entry_count == root_inode.size_bytes \div DIRENT_SIZE
        found == FirstFreeEntry(root_entries, entry_count)
    IN  IF found = -1 /\ RootDirFull(entry_count) THEN Fail("dir_full", m)
        ELSE LET free_entry == IF found = -1 THEN entry_count ELSE found
                 root1 == IF found = -1 THEN GrowRoot(root_inode) ELSE root_inode
                 entry == NewDirent(DirentAt(root_entries, free_entry), free_inode, file_name)
                 region == Put(m.data_region, root_data_block,
                               [kind |-> "dir", ent |-> Put(DirOf(root_entries), free_entry, entry)])
                 tab == Put(m.inode_table, 0, LinkRoot(root1))
             IN  [exit |-> "ok", opened |-> TRUE,
                  out |-> AdderWrite(sb, m.inode_bitmap, m.data_bitmap, tab, region),
                  mem |-> Mem(m.inode_bitmap, m.data_bitmap, tab, region)]

\* main from the source file on: the image is in memory (m) and free_inode is found
AdderFile(sb, m, free_inode, src, now) ==
    IF ~src.exists THEN Fail("open_fail", m)
    ELSE LET needed_blocks == NeededBlocks(src.size) IN
    IF TooLarge(needed_blocks) THEN Fail("too_large", m)
    ELSE LET a == AllocLoop(sb, m.data_bitmap, <<>>, needed_blocks)
             m1 == [m EXCEPT !.data_bitmap = a.data_bitmap] IN
    IF ~a.ok THEN Fail("no_blocks", m1)
    ELSE IF ~FreadOne(src.size) THEN Fail("file_read_fail", m1)
    ELSE LET region == CopyLoop(sb, m.data_region, src, a.data_blocks, 0)
             new_inode == NewInode(InodeAt(m.inode_table, free_inode - 1),
                                   src.size, a.data_blocks, now)
             m2 == Mem(SetBit(m.inode_bitmap, free_inode - 1), a.data_bitmap,
                       Put(m.inode_table, free_inode - 1, new_inode), region)
         IN  AdderLink(sb, m2, free_inode, src.path)

\* main of mkfs_adder on the input file infile: the exit, whether the output
\* file was opened, what it then holds, and the memory at exit
AdderMain(infile, src, now) ==
    IF ~Exists(infile) THEN Fail("open_fail", NoMem)
    ELSE IF ~HasExtent(infile, 0, SB_SIZE) THEN Fail("read_fail", NoMem)
    ELSE LET sb == ExtentAt(infile, 0).data.rec IN
    IF sb.magic # MAGIC THEN Fail("bad_magic", NoMem)
    ELSE IF \/ ~HasExtent(infile, sb.inode_bitmap_start * BS, BS)
            \/ ~HasExtent(infile, sb.data_bitmap_start * BS, BS)
            \/ ~HasExtent(infile, sb.inode_table_start * BS, sb.inode_table_blocks * BS)
            \/ ~HasExtent(infile, sb.data_region_start * BS, sb.data_region_blocks * BS)
         THEN Fail("read_fail", NoMem)
    ELSE LET m == Mem(ExtentAt(infile, sb.inode_bitmap_start * BS).data,
                      ExtentAt(infile, sb.data_bitmap_start * BS).data,
                      ExtentAt(infile, sb.inode_table_start * BS).data,
                      ExtentAt(infile, sb.data_region_start * BS).data)
             free_inode == find_free_inode(m.inode_bitmap, sb.inode_count)
         IN  IF free_inode = -1 THEN Fail("no_inode", m)
             ELSE AdderFile(sb, m, free_inode, src, now)

(***************************************************************************)
(* The state machine.  in_file is the image named by the builder's --image *)
(* and the adder's --input, out_file the file at the adder's --output      *)
(* path.  After a successful insert the written image is the input of the  *)
(* next run and the path of the previous input is the next output target,  *)
(* so out_file then holds the image the insert was applied to.             *)
(***************************************************************************)
VARIABLES in_file, out_file, last, mem, nins, clock

vars == <<in_file, out_file, last, mem, nins, clock>>

\* the number of successful inserts a behaviour of Spec makes
MaxInserts == 2

\* time(NULL) of a run: one of two consecutive seconds
T0 == 1700000000
Times == {T0, T0 + 1}

\* a run of the builder meets a clock value and, in superblock_crc_finalize,
\* the bytes that follow sb on the stack
Env(now, stack) == [now |-> now, stack |-> stack]
EnvA == Env(T0, <<0, 0, 0, 0>>)
EnvB == Env(T0 + 1, <<222, 173, 190, 239>>)

\* --size-kib and --inodes of a run of the builder, with what the run meets:
\* the corners of the accepted ranges, and arguments next to them
BuildRuns == {<<180, 128, EnvA>>, <<180, 512, EnvB>>, <<4096, 512, EnvB>>,
              <<0, 0, EnvA>>, <<176, 128, EnvA>>, <<179, 128, EnvA>>,
              <<182, 128, EnvB>>, <<4100, 128, EnvA>>, <<180, 127, EnvA>>,
              <<180, 513, EnvB>>, <<4096, 0, EnvA>>, <<4, 128, EnvA>>,
              <<24, 512, EnvB>>}

Name(len, ch) == [i \in 1..len |-> ch]

NoSrc == [path |-> <<>>, size |-> 0, exists |-> FALSE, content |-> 0]

Src(path, size, content) == [path |-> path, size |-> size, exists |-> TRUE, content |-> content]

\* the files given with --file
Files == {Src(Name(1, 97), 1, 1),
          Src(Name(NAME_MAX + 1, 99), BS + 1, 2),
          Src(Name(NAME_MAX, 98), DIRECT_MAX * BS, 3),
          Src(Name(NAME_MAX + 3, 100), DIRECT_MAX * BS + 1, 4),
          Src(Name(1, 101), 0, 5),
          [NoSrc EXCEPT !.path = Name(1, 120)]}

Last(tool, exit, opened, src, size_kib, inodes) ==
    [tool |-> tool, exit |-> exit, opened |-> opened, src |-> src,
     size_kib |-> size_kib, inodes |-> inodes]

Init ==
    /\ in_file = NoFile
    /\ out_file = NoFile
    /\ last = Last("none", "none", FALSE, NoSrc, 0, 0)
    /\ mem = NoMem
    /\ nins = 0
    /\ clock = T0

\* a run of mkfs_builder where no image exists yet
Build(size_kib, inodes, env) ==
    /\ ~Exists(in_file)
    /\ \E r \in {BuilderMain(in_file, size_kib, inodes, env.now, env.stack)} :
           /\ in_file' = r.file
           /\ last' = Last("builder", r.exit, r.file # in_file, NoSrc, size_kib, inodes)
    /\ clock' = env.now
    /\ UNCHANGED <<out_file, mem, nins>>

\* a run of mkfs_adder on the current image
Insert(src, now) ==
    /\ Exists(in_file)
    /\ now >= clock
    /\ \E r \in {AdderMain(in_file, src, now)} :
       LET written == IF r.opened THEN r.out ELSE out_file
       IN  /\ r.exit = "ok" => nins < MaxInserts
           /\ last' = Last("adder", r.exit, r.opened, src, 0, 0)
           /\ mem' = r.mem
           /\ IF r.exit = "ok"
              THEN /\ in_file' = written
                   /\ out_file' = in_file
                   /\ nins' = nins + 1
                   /\ clock' = now
              ELSE /\ out_file' = written
                   /\ UNCHANGED <<in_file, nins, clock>>

\* files the tools did not write, given to the adder as --input
CorruptMagic(f) ==
    [f EXCEPT !.ext[1].data.rec.magic = 0]

ExhaustedInodes(f) ==
    [f EXCEPT !.ext[2].data =
        [i \in 0..((f.ext[1].data.rec.inode_count \div 8) - 1) |-> 255]]

\* the k-th file (from 0) of a chain of inserts
ChainFiles ==
    <<Src(Name(1, 97), 1, 1), Src(Name(NAME_MAX, 98), BS, 2),
      Src(Name(NAME_MAX + 1, 99), BS + 1, 3), Src(Name(2, 97), DIRECT_MAX * BS, 4)>>

ChainFile(k) == ChainFiles[(k % Len(ChainFiles)) + 1]

RECURSIVE InsertMany(_, _, _)
\* the image after the inserts lo..hi-1 of a chain that starts from f
InsertMany(f, lo, hi) ==
    IF lo >= hi THEN f
    ELSE IF hi = lo + 1 THEN AdderMain(f, ChainFile(lo), T0).out
    ELSE LET mid == (lo + hi) \div 2
             g == InsertMany(f, lo, mid)
         IN  IF Exists(g) THEN InsertMany(g, mid, hi) ELSE g

\* an image whose root directory holds 64 entries
FullDirImage ==
    InsertMany(BuilderMain(NoFile, 4096, 128, T0, <<0, 0, 0, 0>>).file, 0,
               (BS \div DIRENT_SIZE) - 2)

\* an image in which the root directory entries 1 and 2 were given up: their
\* inode_no, like every byte of them, is 0
FreedEntries(f) ==
    LET ent == DirOf(BlockAt(f.ext[5].data, 0))
    IN  [f EXCEPT !.ext[5].data[0] =
            [kind |-> "dir", ent |-> [i \in (DOMAIN ent) \ {1, 2} |-> ent[i]]]]

Foreign(which, f) ==
    CASE which = "corrupt_magic" -> CorruptMagic(f)
      [] which = "exhausted_inodes" -> ExhaustedInodes(f)
      [] which = "full_dir" -> FullDirImage
      [] which = "freed_entries" -> FreedEntries(f)

ForeignKinds == {"corrupt_magic", "exhausted_inodes", "full_dir", "freed_entries"}

\* a run of mkfs_adder whose --input is another file than the current image
InsertForeign(which, src, now) ==
    /\ Exists(in_file)
    /\ now = clock
    /\ \E r \in {AdderMain(Foreign(which, in_file), src, now)} :
           /\ last' = Last("adder_foreign", r.exit, r.opened, src, 0, 0)
           /\ mem' = r.mem
           /\ out_file' = IF r.opened THEN r.out ELSE out_file
    /\ UNCHANGED <<in_file, nins, clock>>

Next ==
    \/ \E a \in BuildRuns : Build(a[1], a[2], a[3])
    \/ \E src \in Files, now \in Times : Insert(src, now)
    \/ \E which \in ForeignKinds : InsertForeign(which, ChainFile(0), clock)

Spec == Init /\ [][Next]_vars

(***************************************************************************)
(* Chains: an image large enough for 64 files, then one insert after the   *)
(* other, each applied to the image the previous one wrote.                *)
(***************************************************************************)
ChainRuns == {<<4096, 128, EnvA>>, <<4096, 512, EnvB>>, <<1024, 128, EnvA>>,
              <<2048, 256, EnvB>>}

InsertChain ==
    /\ Exists(in_file)
    /\ \E r \in {AdderMain(in_file, ChainFile(nins), clock)} :
       LET written == IF r.opened THEN r.out ELSE out_file
       IN  /\ last' = Last("adder", r.exit, r.opened, ChainFile(nins), 0, 0)
           /\ mem' = r.mem
           /\ IF r.exit = "ok"
              THEN /\ in_file' = written
                   /\ out_file' = in_file
                   /\ nins' = nins + 1
              ELSE /\ out_file' = written
                   /\ UNCHANGED <<in_file, nins>>
    /\ UNCHANGED clock

NextChain ==
    \/ \E a \in ChainRuns : Build(a[1], a[2], a[3])
    \/ InsertChain

SpecChain == Init /\ [][NextChain]_vars

(***************************************************************************)
(* Reading an image the way the adder does: every offset comes from the    *)
(* geometry fields of the image's own superblock.                          *)
(***************************************************************************)
Sb(f) == ExtentAt(f, 0).data.rec
IBitmap(f) == ExtentAt(f, Sb(f).inode_bitmap_start * BS).data
DBitmap(f) == ExtentAt(f, Sb(f).data_bitmap_start * BS).data
ITable(f) == ExtentAt(f, Sb(f).inode_table_start * BS).data
DRegion(f) == ExtentAt(f, Sb(f).data_region_start * BS).data
RootInode(f) == InodeAt(ITable(f), 0)
RootBlock(f) == BlockAt(DRegion(f), RootInode(f).direct[1] - Sb(f).data_region_start)
EntryCount(f) == RootInode(f).size_bytes \div DIRENT_SIZE

\* the indices of the non-zero elements of a map
NonZero(m, zero) == {i \in DOMAIN m : m[i] # zero}

\* the set bits of byte v
ByteBits(v) == {k \in 0..7 : (v \div (2 ^ k)) % 2 = 1}

\* the set bits of a bitmap block
SetBits(bm) == UNION {{8 * i + k : k \in ByteBits(bm[i])} : i \in DOMAIN bm}

\* the images on disk
Images == {f \in {in_file, out_file} : Exists(f)}

AdderRan == last.tool \in {"adder", "adder_foreign"}

\* the last run was an insert that succeeded: in_file is the image it wrote,
\* out_file the image it read
Inserted == last.tool = "adder" /\ last.exit = "ok"

(***************************************************************************)
(* C1                                                                      *)
(***************************************************************************)
\* C1 as stated: in a chain of inserts of non-empty files from a built image
\* with room for them, the 63rd insert succeeds and the 64th is the first to
\* fail, with the root directory full and no output written.
C1_Original ==
    last.tool = "adder" =>
        /\ nins <= 63
        /\ last.exit # "ok" => nins = 63 /\ last.exit = "dir_full" /\ ~last.opened

\* C1, amended: the root directory holds 64 entries of which "." and ".." take
\* two, so the 62nd insert succeeds and the 63rd is the first to fail, with the
\* root directory full; the failing run does not open the output file, which
\* still holds the image of 61 inserts.
C1_SixtyTwoInserts ==
    last.tool = "adder" =>
        /\ nins <= 62
        /\ last.exit # "ok" =>
              /\ nins = 62
              /\ last.exit = "dir_full"
              /\ ~last.opened
              /\ EntryCount(in_file) = 64
              /\ EntryCount(out_file) = 63

C1_Witness == last.tool = "adder" /\ last.exit = "dir_full" /\ nins = 62

(***************************************************************************)
(* C2                                                                      *)
(***************************************************************************)
\* the last run was an insert into a freshly built image
FreshInsert ==
    /\ last.tool = "adder"
    /\ \/ last.exit = "ok" /\ nins = 1
       \/ last.exit # "ok" /\ nins = 0

\* what C2 says a successful insert of src does to the image pre, giving post
InsertEffect(pre, post, src) ==
    LET newbits == SetBits(IBitmap(post)) \ SetBits(IBitmap(pre))
        slot == CHOOSE i \in newbits : TRUE
        at == EntryCount(pre)
        entry == DirentAt(RootBlock(post), at)
        keep == Min(Len(src.path), NAME_MAX)
    IN  /\ SetBits(DBitmap(pre)) \subseteq SetBits(DBitmap(post))
        /\ Cardinality(SetBits(DBitmap(post)) \ SetBits(DBitmap(pre)))
              = (src.size + 4095) \div 4096
        /\ Cardinality(newbits) = 1
        /\ InodeAt(ITable(post), slot).mode = MODE_FILE
        /\ InodeAt(ITable(post), slot).size_bytes = src.size
        /\ EntryCount(post) = at + 1
        /\ DirentAt(RootBlock(pre), at) = ZeroDirent
        /\ entry.type = TYPE_FILE
        /\ entry.inode_no = slot + 1
        /\ \A k \in 1..NAME_FIELD :
              entry.name[k] = IF k <= keep THEN src.path[k] ELSE 0
        /\ RootInode(post).links = RootInode(pre).links + 1

\* C2 as stated: inserting a file of any size from 0 to 49152 into a freshly
\* built image succeeds and allocates ceil(S/4096) blocks, creates the inode,
\* appends the directory entry and raises the root link count by one.
C2_InsertAnySize ==
    (FreshInsert /\ last.src.exists /\ last.src.size <= 49152) =>
        /\ last.exit = "ok"
        /\ InsertEffect(out_file, in_file, last.src)

\* the same for files that are not empty, which is what the code does
C2_InsertNonEmpty ==
    (FreshInsert /\ last.src.exists /\ last.src.size \in 1..49152) =>
        /\ last.exit = "ok"
        /\ InsertEffect(out_file, in_file, last.src)

\* an empty file is refused after the (empty) allocation loop, by fread
C2_EmptyRefused ==
    (last.tool = "adder" /\ last.src.exists /\ last.src.size = 0) =>
        last.exit = "file_read_fail" /\ ~last.opened

C2_WitnessNonEmpty ==
    FreshInsert /\ last.exit = "ok" /\ last.src.size = 49152 /\ Len(last.src.path) = NAME_MAX

C2_WitnessEmpty == FreshInsert /\ last.src.exists /\ last.src.size = 0

(***************************************************************************)
(* C3                                                                      *)
(***************************************************************************)
FailedRun == AdderRan /\ last.exit # "ok"

\* the four regions of image f as the adder reads them
MemOf(f) == Mem(IBitmap(f), DBitmap(f), ITable(f), DRegion(f))

\* what a failed run changed in memory is in no image on disk: no image holds
\* the regions the run had in memory when it gave up.  (A single region may
\* equal that of an image an earlier, successful run wrote.)
MemNowhere ==
    mem # MemOf(in_file) => \A f \in Images : MemOf(f) # mem

\* C3: a run of the adder that fails (bad magic, no free inode, more than 12
\* blocks, data blocks exhausted partway, root directory full, source file
\* unreadable) never opens the output file: the output target and the input
\* image are what they were before the run, and what the run changed in its
\* memory is in no image.
C3_FailureWritesNothing ==
    [][FailedRun' =>
          /\ ~last'.opened
          /\ out_file' = out_file
          /\ in_file' = in_file
          /\ (last'.tool = "adder" => MemNowhere')]_vars

\* data blocks ran out after the run had marked some in its data bitmap
C3_Witness ==
    /\ last.tool = "adder"
    /\ last.exit = "no_blocks"
    /\ mem.data_bitmap # DBitmap(in_file)
    /\ Exists(out_file)

\* every kind of failure C3 names happens
C3_WitnessBadMagic == last.exit = "bad_magic"
C3_WitnessNoInode == last.exit = "no_inode"
C3_WitnessTooLarge == last.exit = "too_large" /\ Exists(out_file)
C3_WitnessDirFull == last.exit = "dir_full" /\ mem # NoMem /\ Exists(out_file)

(***************************************************************************)
(* C4                                                                      *)
(***************************************************************************)
FreeBlocks(f) == Sb(f).data_region_blocks - Cardinality(SetBits(DBitmap(f)))

\* C4: the adder refuses a source file for its size exactly when the file
\* is larger than 49152 bytes (12 blocks): such a file fails with a non-zero
\* exit and no output file whatever the free space of the image, and a file
\* of exactly 49152 bytes is not refused for its size and is inserted when
\* the image has 12 free blocks.
C4_SizeLimit ==
    (last.tool = "adder" /\ last.src.exists) =>
        /\ last.exit = "too_large" <=> last.src.size > 49152
        /\ last.src.size > 49152 => ~last.opened
        /\ (last.src.size = 49152 /\ last.exit # "ok") =>
              last.exit = "no_blocks" /\ FreeBlocks(in_file) < 12

\* a file of exactly 49152 bytes was inserted
C4_Witness == Inserted /\ last.src.size = 49152

\* a file of 49153 bytes was refused by an image without a free block
C4_WitnessFull ==
    last.tool = "adder" /\ last.exit = "too_large" /\ FreeBlocks(in_file) <= 1

(***************************************************************************)
(* C5                                                                      *)
(***************************************************************************)
DotName(n) == [i \in 1..NAME_FIELD |-> IF i <= n THEN 46 ELSE 0]

\* C5: a freshly built image has bit 0 and no other bit set in each bitmap,
\* a root inode that is a directory with 2 links, 128 bytes, direct[0] =
\* data_region_start and direct[1..11] = 0, the two entries "." and ".." of
\* type 2 for inode 1, and nothing else that is not zero.
C5_FreshImage ==
    (Exists(in_file) /\ nins = 0) =>
        LET root == RootInode(in_file)
            blk == BlockAt(DRegion(in_file), 0)
        IN  /\ SetBits(IBitmap(in_file)) = {0}
            /\ SetBits(DBitmap(in_file)) = {0}
            /\ root.mode = 16384
            /\ root.links = 2
            /\ root.size_bytes = 128
            /\ root.direct[1] = Sb(in_file).data_region_start
            /\ \A k \in 2..12 : root.direct[k] = 0
            /\ NonZero(ITable(in_file), ZeroInode) = {0}
            /\ NonZero(DRegion(in_file), ZeroBlock) = {0}
            /\ blk.kind = "dir"
            /\ NonZero(blk.ent, ZeroDirent) = {0, 1}
            /\ \A k \in {0, 1} :
                  /\ blk.ent[k].inode_no = 1
                  /\ blk.ent[k].type = 2
                  /\ blk.ent[k].name = DotName(k + 1)

C5_Witness == last.tool = "builder" /\ last.exit = "ok" /\ last.size_kib = 4096

(***************************************************************************)
(* C6                                                                      *)
(***************************************************************************)
ArgsInBounds(size_kib, inodes) ==
    /\ size_kib \in 180..4096
    /\ size_kib % 4 = 0
    /\ inodes \in 128..512

\* the geometry of accepted arguments, without the unsigned subtraction
GeometryOk(size_kib, inodes) ==
    LET g == compute_geometry(size_kib, inodes)
    IN  /\ g.total_blocks >= 3 + g.inode_table_blocks
        /\ g.data_region_blocks = g.total_blocks - (3 + g.inode_table_blocks)
        /\ g.data_region_blocks >= 1

\* C6: arguments within the bounds give data_region_blocks = total_blocks -
\* (3 + inode_table_blocks) >= 1 without wrap-around, and the image is built;
\* any other arguments are rejected and no image file is created.  The first
\* part is also checked for every pair of the accepted ranges.
C6_Geometry ==
    /\ last.tool = "builder" =>
          IF ArgsInBounds(last.size_kib, last.inodes)
          THEN /\ last.exit = "ok"
               /\ GeometryOk(last.size_kib, last.inodes)
               /\ Sb(in_file).total_blocks >= Sb(in_file).data_region_start
               /\ Sb(in_file).data_region_blocks
                     = Sb(in_file).total_blocks - (3 + Sb(in_file).inode_table_blocks)
               /\ Sb(in_file).data_region_blocks >= 1
          ELSE /\ last.exit # "ok"
               /\ ~last.opened
               /\ ~Exists(in_file)
    /\ last.tool = "none" =>
          \A k \in 45..1024, inodes \in 128..512 : GeometryOk(4 * k, inodes)

C6_Witness == last.tool = "builder" /\ last.exit = "ok" /\ last.inodes = 512 /\ last.size_kib = 180

C6_WitnessRejected == last.tool = "builder" /\ last.exit = "usage" /\ last.size_kib = 176

(***************************************************************************)
(* C7                                                                      *)
(***************************************************************************)
\* the superblock record a file starts with
Rec0(f) == f.ext[1].data.rec

\* the regions of f as its superblock places them: <<first block, blocks>>
Regions(f) ==
    <<<<0, 1>>,
      <<Rec0(f).inode_bitmap_start, Rec0(f).inode_bitmap_blocks>>,
      <<Rec0(f).data_bitmap_start, Rec0(f).data_bitmap_blocks>>,
      <<Rec0(f).inode_table_start, Rec0(f).inode_table_blocks>>,
      <<Rec0(f).data_region_start, Rec0(f).data_region_blocks>> >>

\* the five extents of f are its five regions: each starts at the first byte
\* of its region, the superblock's lies inside block 0 and every other one
\* fills its region; the regions follow each other from block 0 to the end
Layout(f) ==
    /\ Len(f.ext) = 5
    /\ Rec0(f).block_size = 4096
    /\ Rec0(f).inode_bitmap_start = 1
    /\ Rec0(f).data_bitmap_start = 2
    /\ Rec0(f).inode_table_start = 3
    /\ Rec0(f).data_region_start = 3 + Rec0(f).inode_table_blocks
    /\ Rec0(f).data_region_blocks = Rec0(f).total_blocks - Rec0(f).data_region_start
    /\ Rec0(f).data_region_blocks >= 1
    /\ \A k \in 1..5 : f.ext[k].off = Regions(f)[k][1] * 4096
    /\ f.ext[1].len \in 116..4096
    /\ \A k \in 2..5 : f.ext[k].len = Regions(f)[k][2] * 4096
    /\ \A k \in 1..4 : Regions(f)[k][1] + Regions(f)[k][2] = Regions(f)[k + 1][1]
    /\ Regions(f)[5][1] + Regions(f)[5][2] = Rec0(f).total_blocks
    /\ f.size = Rec0(f).total_blocks * 4096

\* C7: every image the builder or a successful insert wrote has the geometry
\* fields 1, 2, 3, 3 + inode_table_blocks and total_blocks - data_region_start,
\* its five regions back to back at block_index * 4096, and a length of
\* total_blocks * 4096; an insert keeps the length and the offsets of its input.
C7_Layout ==
    /\ \A f \in Images : Layout(f)
    /\ Inserted =>
          /\ in_file.size = out_file.size
          /\ \A k \in 1..5 : in_file.ext[k].off = out_file.ext[k].off

C7_Witness == Inserted /\ nins = 2 /\ Rec0(in_file).total_blocks = 1024

(***************************************************************************)
(* C8                                                                      *)
(***************************************************************************)
\* bytes 116..4095 of f: "zero" when they are a hole or were written as zeros
Pad0(f) ==
    IF f.ext[1].len > SB_SIZE THEN f.ext[1].data.pad
    ELSE IF \A k \in 2..Len(f.ext) : f.ext[k].off >= BS THEN "zero"
    ELSE "data"

\* block 0 of f
Block0(f) == [rec |-> Rec0(f), pad |-> Pad0(f)]

\* C8: a successful insert writes an image whose block 0 is the block 0 of
\* its input: every superblock field, mtime_epoch and checksum included, and
\* zero padding after the 116-byte record.
C8_SuperblockKept ==
    Inserted =>
        /\ Block0(in_file) = Block0(out_file)
        /\ Pad0(in_file) = "zero"

C8_Witness == Inserted /\ Rec0(in_file).checksum # Zeros(4) /\ in_file.ext[1].len = SB_SIZE

(***************************************************************************)
(* C9                                                                      *)
(***************************************************************************)
\* C9: every bit set in a bitmap of the image an insert read is set in the
\* image it wrote, and no step clears a bit of the current image.
C9_BitsOnlySet ==
    [][(Exists(in_file) /\ Exists(in_file')) =>
          /\ SetBits(IBitmap(in_file)) \subseteq SetBits(IBitmap(in_file'))
          /\ SetBits(DBitmap(in_file)) \subseteq SetBits(DBitmap(in_file'))
          /\ Inserted' =>
                /\ out_file' = in_file
                /\ SetBits(IBitmap(out_file')) \subseteq SetBits(IBitmap(in_file'))
                /\ SetBits(DBitmap(out_file')) \subseteq SetBits(DBitmap(in_file'))]_vars

\* an insert set bits in a byte of the data bitmap that already had bits set
C9_Witness ==
    /\ Inserted
    /\ nins = 2
    /\ \E i \in DOMAIN DBitmap(out_file) :
          /\ DBitmap(out_file)[i] # DBitmap(in_file)[i]
          /\ Cardinality(ByteBits(DBitmap(out_file)[i])) >= 2

(***************************************************************************)
(* C10                                                                     *)
(***************************************************************************)
ChecksumsOk(f) ==
    /\ \A i \in SetBits(IBitmap(f)) :
          InodeAt(ITable(f), i).inode_crc
             = crc32(InodeBytes(InodeAt(ITable(f), i))) \o <<0, 0, 0, 0>>
    /\ \A k \in 0..(EntryCount(f) - 1) :
          DirentAt(RootBlock(f), k).inode_no # 0 =>
             DirentAt(RootBlock(f), k).checksum
                = XorLoop(DirentBytes(DirentAt(RootBlock(f), k)), 1, 63)

\* C10: in every image written by the builder or by a successful insert,
\* every allocated inode stores the CRC32 of its current first 120 bytes and
\* every directory entry in use stores the XOR of its current first 63 bytes.
C10_Checksums == \A f \in Images : ChecksumsOk(f)

\* an insert changed size_bytes and links of the root inode
C10_Witness ==
    /\ Inserted
    /\ RootInode(in_file).links = RootInode(out_file).links + 1
    /\ RootInode(in_file).size_bytes = RootInode(out_file).size_bytes + 64
    /\ RootInode(in_file).inode_crc # RootInode(out_file).inode_crc

(***************************************************************************)
(* C11                                                                     *)
(***************************************************************************)
\* the direct pointers of ino that are not zero
UsedDirect(ino) == {j \in 1..Len(ino.direct) : ino.direct[j] # 0}

DirectOk(ino) ==
    /\ Len(ino.direct) = 12
    /\ \A j \in UsedDirect(ino) : \A k \in 1..(j - 1) : k \in UsedDirect(ino)
    /\ (ino.size_bytes + 4095) \div 4096 <= Cardinality(UsedDirect(ino))
    /\ Cardinality(UsedDirect(ino)) <= 12

\* C11: in every image on disk every allocated inode has its non-zero direct
\* pointers in the leading slots, zero in the others, and at least
\* ceil(size_bytes / 4096) and at most 12 of them.
C11_DirectSlots ==
    \A f \in Images : \A i \in SetBits(IBitmap(f)) : DirectOk(InodeAt(ITable(f), i))

\* an image holds a file of 12 blocks and a file of fewer blocks
C11_Witness ==
    /\ Inserted
    /\ \E i, j \in SetBits(IBitmap(in_file)) \ {0} :
          /\ Cardinality(UsedDirect(InodeAt(ITable(in_file), i))) = 12
          /\ Cardinality(UsedDirect(InodeAt(ITable(in_file), j))) \in 1..11

(***************************************************************************)
(* C12                                                                     *)
(***************************************************************************)
\* the root directory of image f is at most 64 entries, all in the one block
\* direct[0] names
DirBounded(f) ==
    /\ RootInode(f).size_bytes <= 4096
    /\ EntryCount(f) <= 64
    /\ \A j \in 2..12 : RootInode(f).direct[j] = 0
    /\ RootInode(f).direct[1] - Sb(f).data_region_start \in 0..(Sb(f).data_region_blocks - 1)
    /\ DOMAIN DirOf(RootBlock(f)) \subseteq 0..(EntryCount(f) - 1)
    /\ \A b \in DOMAIN DRegion(f) :
          DRegion(f)[b].kind = "dir" => b = RootInode(f).direct[1] - Sb(f).data_region_start

\* slots of the first size_bytes/64 of the root directory with inode number 0
FreeSlots(f) == {i \in 0..(EntryCount(f) - 1) : DirentAt(RootBlock(f), i).inode_no = 0}

\* the slot C12 says the insert into pre uses
SlotFor(pre) ==
    IF FreeSlots(pre) = {} THEN EntryCount(pre)
    ELSE CHOOSE i \in FreeSlots(pre) : \A j \in FreeSlots(pre) : i <= j

\* the insert that read pre and wrote post put its entry where C12 says
Placed(pre, post) ==
    /\ DirentAt(RootBlock(pre), SlotFor(pre)).inode_no = 0
    /\ DirentAt(RootBlock(post), SlotFor(pre)).inode_no
          \in {i + 1 : i \in SetBits(IBitmap(post)) \ SetBits(IBitmap(pre))}
    /\ \A i \in 0..63 :
          i # SlotFor(pre) => DirentAt(RootBlock(post), i) = DirentAt(RootBlock(pre), i)
    /\ RootInode(post).size_bytes
          = RootInode(pre).size_bytes + (IF FreeSlots(pre) = {} THEN 64 ELSE 0)

\* C12: the root directory of every image on disk is at most 64 entries in
\* the block direct[0] names; an insert writes its entry to the first slot
\* with inode number 0 among the first size_bytes/64, leaving size_bytes, and
\* when there is none to slot size_bytes/64, adding 64 to size_bytes.
C12_RootDirectory ==
    /\ \A f \in Images : DirBounded(f)
    /\ Inserted => Placed(out_file, in_file)
    /\ (last.tool = "adder_foreign" /\ last.exit = "ok") =>
          Placed(FreedEntries(in_file), out_file)

\* an insert took the first of two freed slots
C12_Witness ==
    /\ last.tool = "adder_foreign"
    /\ last.exit = "ok"
    /\ Cardinality(FreeSlots(FreedEntries(in_file))) = 2
    /\ FreeSlots(out_file) = {2}

\* an insert appended at slot size_bytes/64
C12_WitnessAppend == Inserted /\ FreeSlots(out_file) = {} /\ EntryCount(in_file) = 4

(***************************************************************************)
(* C13                                                                     *)
(***************************************************************************)
\* the inode slots allocated in post and not in pre
NewSlots(pre, post) == SetBits(IBitmap(post)) \ SetBits(IBitmap(pre))

\* block blk holds bytes from..from+len-1 of the file content at its start
\* and zero in every byte behind them
HoldsBytes(blk, content, from, len) ==
    /\ blk.kind = "file"
    /\ blk.content = content
    /\ blk.from = from
    /\ blk.len = len
    /\ blk.rest = ZeroBlock

\* the blocks direct[0..n-1] of inode ino of image f, read in order, give the
\* S bytes of src and then zeros to the end of the last block
ReadsBack(f, ino, src) ==
    LET S == src.size
        n == (S + 4095) \div 4096
    IN  \A k \in 0..(n - 1) :
           /\ ino.direct[k + 1] # 0
           /\ HoldsBytes(BlockAt(DRegion(f), ino.direct[k + 1] - Sb(f).data_region_start),
                         src.content, k * 4096,
                         IF k = n - 1 THEN S - (n - 1) * 4096 ELSE 4096)

\* C13: after a successful insert of a file of S bytes the blocks named by
\* the new inode's direct[0..n-1], n = ceil(S/4096), read in order give the
\* file's bytes in their first S bytes and zeros in the rest of the last
\* block, also when S is a multiple of 4096.
C13_ContentRoundTrip ==
    Inserted =>
        /\ Cardinality(NewSlots(out_file, in_file)) = 1
        /\ \A i \in NewSlots(out_file, in_file) :
              ReadsBack(in_file, InodeAt(ITable(in_file), i), last.src)

\* a file of a multiple of 4096 bytes was inserted behind a file whose last
\* block is partly filled
C13_Witness ==
    /\ Inserted
    /\ nins = 2
    /\ last.src.size % 4096 = 0
    /\ \E i \in SetBits(IBitmap(out_file)) \ {0} :
          InodeAt(ITable(out_file), i).size_bytes % 4096 # 0

(***************************************************************************)
(* C14                                                                     *)
(***************************************************************************)
\* the data-region blocks allocated in post and not in pre
NewBlocks(pre, post) == SetBits(DBitmap(post)) \ SetBits(DBitmap(pre))

\* the index in the data region of the root directory's block
RootBlockNo(f) == RootInode(f).direct[1] - Sb(f).data_region_start

\* the root directory slots that differ between pre and post
ChangedSlots(pre, post) ==
    {i \in 0..63 : DirentAt(RootBlock(post), i) # DirentAt(RootBlock(pre), i)}

\* the insert that read pre and wrote post changed nothing but the new
\* inode, the root inode, the new blocks and one root directory entry
Frame(pre, post) ==
    /\ \A i \in (DOMAIN ITable(pre)) \cup (DOMAIN ITable(post)) :
          i \notin NewSlots(pre, post) \cup {0} =>
             InodeAt(ITable(post), i) = InodeAt(ITable(pre), i)
    /\ \A b \in (DOMAIN DRegion(pre)) \cup (DOMAIN DRegion(post)) :
          b \notin NewBlocks(pre, post) \cup {RootBlockNo(pre)} =>
             BlockAt(DRegion(post), b) = BlockAt(DRegion(pre), b)
    /\ RootBlockNo(post) = RootBlockNo(pre)
    /\ Cardinality(ChangedSlots(pre, post)) = 1
    /\ \A i \in ChangedSlots(pre, post) : DirentAt(RootBlock(pre), i).inode_no = 0
    \* what belongs to the files inserted before, and "." and ".."
    /\ \A i \in SetBits(IBitmap(pre)) \ {0} :
          /\ InodeAt(ITable(post), i) = InodeAt(ITable(pre), i)
          /\ \A j \in UsedDirect(InodeAt(ITable(pre), i)) :
                BlockAt(DRegion(post),
                        InodeAt(ITable(pre), i).direct[j] - Sb(pre).data_region_start)
                   = BlockAt(DRegion(pre),
                             InodeAt(ITable(pre), i).direct[j] - Sb(pre).data_region_start)
    /\ \A k \in 0..(EntryCount(pre) - 1) :
          DirentAt(RootBlock(pre), k).inode_no # 0 =>
             DirentAt(RootBlock(post), k) = DirentAt(RootBlock(pre), k)

\* C14: a successful insert changes the inode table only in the slots of the
\* new inode and of the root inode, and the data region only in the blocks
\* it allocated and in one root directory entry; the inode, blocks and entry
\* of every file inserted before, and "." and "..", are what they were.
C14_Frame ==
    Inserted =>
        /\ Frame(out_file, in_file)
        /\ \A k \in {0, 1} :
              /\ DirentAt(RootBlock(in_file), k).inode_no = 1
              /\ DirentAt(RootBlock(in_file), k).type = 2
              /\ DirentAt(RootBlock(in_file), k).name = DotName(k + 1)

\* a file of several blocks was inserted into an image that held a file
C14_Witness ==
    /\ Inserted
    /\ Cardinality(SetBits(IBitmap(out_file))) = 2
    /\ Cardinality(NewBlocks(out_file, in_file)) >= 2

(***************************************************************************)
(* C15                                                                     *)
(***************************************************************************)
\* every index below a member of new is in used: new took the lowest indices
\* that used left free
LowestTaken(new, used) == \A b \in new : \A j \in 0..(b - 1) : j \in used \cup new

\* the insert that read pre and wrote post, the k-th of its chain, took inode
\* number k + 1 and the lowest free blocks in rising order
LowestFirst(pre, post, k) ==
    \E islots \in {NewSlots(pre, post)}, blocks \in {NewBlocks(pre, post)},
       iused \in {SetBits(IBitmap(pre))}, bused \in {SetBits(DBitmap(pre))} :
        /\ islots = {k}
        /\ LowestTaken(islots, iused)
        /\ LowestTaken(blocks, bused)
        /\ \E ino \in {InodeAt(ITable(post), k)} :
              /\ Cardinality(UsedDirect(ino)) = Cardinality(blocks)
              /\ {ino.direct[j] - Sb(post).data_region_start : j \in UsedDirect(ino)} = blocks
              /\ \A j \in UsedDirect(ino) :
                    /\ j > 1 => ino.direct[j - 1] < ino.direct[j]
                    /\ ino.direct[j] >= Sb(post).data_region_start + 1
                    /\ ino.direct[j] <= Sb(post).total_blocks - 1
        /\ \E e \in ChangedSlots(pre, post) : DirentAt(RootBlock(post), e).inode_no = k + 1

\* C15: every insert takes the lowest free inode and, block by block, the
\* lowest free data-region slot: the k-th insert of a chain from a built
\* image gets inode number k + 1, and its direct pointers rise strictly, lie
\* in data_region_start + 1 .. total_blocks - 1 and are data_region_start
\* plus the data-bitmap indices the insert set.
C15_LowestFirst == Inserted => LowestFirst(out_file, in_file, nins)

\* the 60th file of a chain got inode number 61 and 12 blocks
C15_Witness ==
    /\ Inserted
    /\ nins = 60
    /\ Cardinality(NewBlocks(out_file, in_file)) = 12
    /\ NewSlots(out_file, in_file) = {60}

(***************************************************************************)
(* C16                                                                     *)
(***************************************************************************)
\* the direct pointers in use of the allocated inodes of f: inode slot and
\* index in direct
Refs(f) ==
    {r \in SetBits(IBitmap(f)) \X (1..12) : InodeAt(ITable(f), r[1]).direct[r[2]] # 0}

\* the data-region index a pointer names
RefBlock(f, r) == InodeAt(ITable(f), r[1]).direct[r[2]] - Sb(f).data_region_start

BlocksMatch(f) ==
    \E refs \in {Refs(f)}, bits \in {SetBits(DBitmap(f))} :
        /\ {RefBlock(f, r) : r \in refs} = bits
        /\ Cardinality(refs) = Cardinality(bits)
        /\ \A r \in refs : r[1] # 0 => RefBlock(f, r) # RootBlockNo(f)
        /\ \A r \in refs : RefBlock(f, r) \in 0..(Sb(f).data_region_blocks - 1)
        /\ \A b \in bits : b < Sb(f).data_region_blocks

\* C16: in every image on disk the set bits of the data bitmap are the
\* blocks the direct pointers of the allocated inodes name, each named once;
\* no file inode names the root directory's block, and no bit or pointer is
\* at or beyond data_region_blocks.
C16_BlocksMatch == \A f \in Images : BlocksMatch(f)

\* two inserts left one free block in the data region
C16_Witness ==
    /\ Inserted
    /\ nins = 2
    /\ Cardinality(SetBits(DBitmap(in_file))) = Sb(in_file).data_region_blocks - 1

\* an image whose data region is allocated to the last block
C16_WitnessFull ==
    /\ Exists(out_file)
    /\ Cardinality(SetBits(DBitmap(out_file))) = Sb(out_file).data_region_blocks

(***************************************************************************)
(* C17                                                                     *)
(***************************************************************************)
\* the root directory slots of f with a non-zero inode number
InUse(f) == {k \in 0..63 : DirentAt(RootBlock(f), k).inode_no # 0}

CountsAgree(f) ==
    \E bits \in {SetBits(IBitmap(f))}, used \in {InUse(f)} :
        /\ RootInode(f).size_bytes % 64 = 0
        /\ RootInode(f).links = RootInode(f).size_bytes \div 64
        /\ RootInode(f).size_bytes \div 64 = Cardinality(used)
        /\ Cardinality(used) = Cardinality(bits) + 1
        /\ \A i \in bits \ {0} :
              /\ i + 1 <= Sb(f).inode_count
              /\ Cardinality({k \in used :
                                 /\ DirentAt(RootBlock(f), k).inode_no = i + 1
                                 /\ DirentAt(RootBlock(f), k).type = 1}) = 1
              /\ \A k \in used :
                    DirentAt(RootBlock(f), k).inode_no = i + 1 =>
                       DirentAt(RootBlock(f), k).type = 1

\* C17: in every image a chain of inserts derives from a built image, the
\* root's link count, its size_bytes / 64, the number of root directory
\* entries in use and the number of set inode-bitmap bits plus one are equal,
\* and every set bit but bit 0 has exactly one entry, of type file, with its
\* inode number, which is at most inode_count.
C17_CountsAgree ==
    /\ Exists(in_file) => CountsAgree(in_file)
    /\ Inserted => CountsAgree(out_file)

\* the image of 62 inserts: 64 links, 64 entries, 63 inodes
C17_Witness ==
    /\ Inserted
    /\ RootInode(in_file).links = 64
    /\ Cardinality(InUse(in_file)) = 64
    /\ Cardinality(SetBits(IBitmap(in_file))) = 63

(***************************************************************************)
(* C18                                                                     *)
(***************************************************************************)
\* C18: no insert into an image derived from a built one fails for want of
\* a free inode: the builder gives at least 128 inodes and the root
\* directory takes 62 files, so no image on disk has more than 63 bits set
\* in its inode bitmap.
C18_InodesSuffice ==
    /\ last.tool = "adder" => last.exit # "no_inode"
    /\ \A f \in Images :
          /\ Sb(f).inode_count >= 128
          /\ Cardinality(SetBits(IBitmap(f))) <= 63
          /\ FirstClear(IBitmap(f), Sb(f).inode_count) # -1

\* the root directory filled with 65 of 128 inodes still free
C18_Witness ==
    /\ last.tool = "adder"
    /\ last.exit = "dir_full"
    /\ Sb(in_file).inode_count = 128
    /\ Cardinality(SetBits(IBitmap(in_file))) = 63

\* the run that found the directory full had set a 64th bit in memory
C18_WitnessMemory ==
    /\ last.tool = "adder"
    /\ last.exit = "dir_full"
    /\ Cardinality(SetBits(mem.inode_bitmap)) = 64

(***************************************************************************)
(* C19                                                                     *)
(***************************************************************************)
\* the name field of an entry for a file given as path: the first 57 bytes
\* of the path, then zeros
NameOf(path) == [k \in 1..58 |-> IF k <= Len(path) /\ k <= 57 THEN path[k] ELSE 0]

\* the root directory slots in use of f whose name field is name
SameName(f, name) == {k \in InUse(f) : DirentAt(RootBlock(f), k).name = name}

\* C19: the adder does not look up the new name.  A run whose file name,
\* cut to 57 bytes, is the name of an entry in use fails only for the
\* reasons any run fails (size, unreadable file, blocks, full directory);
\* when it succeeds the image holds that name in two or more entries in use,
\* the new one among them, and they name different inodes.
C19_DuplicateNames ==
    /\ (/\ last.tool = "adder"
        /\ last.exit # "ok"
        /\ last.src.exists
        /\ SameName(in_file, NameOf(last.src.path)) # {}) =>
          \/ last.exit = "too_large" /\ last.src.size > 49152
          \/ last.exit = "file_read_fail" /\ last.src.size = 0
          \/ last.exit = "no_blocks"
                /\ FreeBlocks(in_file) < (last.src.size + 4095) \div 4096
          \/ last.exit = "dir_full" /\ EntryCount(in_file) = 64
    /\ (Inserted /\ SameName(out_file, NameOf(last.src.path)) # {}) =>
          \E same \in {SameName(in_file, NameOf(last.src.path))} :
              /\ Cardinality(same) = Cardinality(SameName(out_file, NameOf(last.src.path))) + 1
              /\ ChangedSlots(out_file, in_file) \subseteq same
              /\ \A k1, k2 \in same :
                    k1 # k2 => DirentAt(RootBlock(in_file), k1).inode_no
                                  # DirentAt(RootBlock(in_file), k2).inode_no

\* a file with a name of 58 bytes was inserted twice: both entries hold its
\* first 57 bytes
C19_Witness ==
    /\ Inserted
    /\ Len(last.src.path) > 57
    /\ Cardinality(SameName(in_file, NameOf(last.src.path))) = 2

TypeOK ==
    /\ nins \in 0..64
    /\ clock \in Times
    /\ Exists(in_file) => in_file.size = in_file.ext[1].data.rec.total_blocks * BS
    /\ last.exit \in {"none", "ok", "usage", "too_small", "alloc_fail", "size_mismatch",
                      "open_fail", "read_fail", "bad_magic", "no_inode", "too_large",
                      "no_blocks", "file_read_fail", "dir_full"}
====
